---- MODULE Spec2Model ----
(***************************************************************************)
(* Model of eclipse.py: the multi-account Dropbox -> Threads uploader.     *)
(* The driver loop (__main__), the per-account workflows run_with_file and *)
(* DropboxToThreadsUploader.run, and post_to_threads are modelled as one   *)
(* sequential state machine.  Every external call (Dropbox, Threads,       *)
(* Telegram) is one step whose response is chosen by the environment.      *)
(***************************************************************************)
EXTENDS Integers, Sequences, FiniteSets, TLC

VARIABLES
    pc,               \* position of the script (the next external call)
    acct,             \* index into ACCOUNTS of the account being processed
    overall_summary,  \* __main__: overall_summary
    initial_count,    \* __main__: initial_count (ERR for 'ERR')
    files,            \* __main__: files (the eligible files first listed)
    posted_file,      \* __main__: posted_file (NoFile for None)
    workflow,         \* which workflow runs: "run_with_file", "run" or "none"
    chosen_file,      \* the file the workflow works on (chosen_file / file)
    temp_link,        \* post_to_threads: temp_link ("unset" before line 100)
    data,             \* post_to_threads: the form data of the creation call
    creation_id,      \* post_to_threads: creation_id
    success,          \* post_to_threads' return value ("unset" before)
    ret,              \* what the workflow returned to __main__
    log_buffer,       \* uploader.log_buffer (message tags)
    flushed,          \* number of send_log_summary calls of this uploader
    calls,            \* the external calls of the account's workflow, in order
    creates,          \* responses of the creation calls of this account
    polls,            \* responses of the poll calls of this account
    pubs,             \* responses of the publish calls of this account
    sleeps,           \* the time.sleep durations of this account, in order
    summary_sent      \* number of send_overall_summary calls

vars == <<pc, acct, overall_summary, initial_count, files, posted_file,
          workflow, chosen_file, temp_link, data, creation_id, success, ret,
          log_buffer, flushed, calls, creates, polls, pubs, sleeps,
          summary_sent>>

----------------------------------------------------------------------------
(* Bounds and program constants *)

\* Longest raw folder listing the storage service returns.
MaxListing == 1

\* ACCOUNTS (the account_name of each configured account).
ACCOUNTS == <<"eclipsed.by.you", "inkwisp", "ink_wisps">>

\* 'ERR', the initial_count of an account whose first listing failed.
ERR == -1

\* A polling loop that runs once too often.
max_retries_OneMore == 20 + 1

\* max_retries of the polling loop.
max_retries == 20

\* range(3) of the publish loop.
publish_attempts == 3

\* The retryable error_subcode ("Threads backend not ready yet").
RETRYABLE_SUBCODE == 2207032

\* Another error_subcode, and the value standing for an absent one (None).
OTHER_SUBCODE == 33
NO_SUBCODE == 0

\* HTTP status codes; EXC stands for "the call raised, there is no response".
HTTP_OK == 200
HTTP_BAD_REQUEST == 400
HTTP_SERVER_ERROR == 500
EXC == 0

\* time.sleep durations.
SETTLE_DELAY == 3
POLL_DELAY == 1
EXTRA_WAIT == 5
RETRY_DELAY == 5

----------------------------------------------------------------------------
(* Remote files *)

NoFile == [name |-> "", ext |-> ""]

\* What a Dropbox folder may hold: names are written as stem and extension.
FolderEntries ==
    { [name |-> "a", ext |-> ".MP4"],
      [name |-> "b", ext |-> ".jpg"],
      [name |-> "c", ext |-> ".txt"] }

\* str.lower() on the extensions that occur.
Lower(e) ==
    CASE e = ".MP4" -> ".mp4"
      [] e = ".MOV" -> ".mov"
      [] e = ".JPG" -> ".jpg"
      [] e = ".JPEG" -> ".jpeg"
      [] e = ".PNG" -> ".png"
      [] OTHER -> e

valid_exts == {".mp4", ".mov", ".jpg", ".jpeg", ".png"}

RECURSIVE FilterSeq(_, _)
FilterSeq(s, keep) ==
    IF s = << >> THEN << >>
    ELSE IF Head(s) \in keep THEN <<Head(s)>> \o FilterSeq(Tail(s), keep)
         ELSE FilterSeq(Tail(s), keep)

\* list_dropbox_files: the entries whose lowered name ends with a valid ext.
list_dropbox_files(entries) ==
    FilterSeq(entries, {f \in FolderEntries : Lower(f.ext) \in valid_exts})

\* post_to_threads, lines 97-98.
media_type_of(file) ==
    IF Lower(file.ext) \in {".mp4", ".mov"} THEN "VIDEO" ELSE "IMAGE"

\* The raw listings files_list_folder may return.
Listings ==
    { s \in UNION { [1..n -> FolderEntries] : n \in 0..MaxListing } :
        \A i, j \in DOMAIN s : i # j => s[i] # s[j] }

Range(s) == { s[i] : i \in DOMAIN s }

Count(s, x) == Cardinality({ i \in DOMAIN s : s[i] = x })

----------------------------------------------------------------------------
(* Responses of the platform *)

\* Container / text-post creation: the status code and the "id" of the body.
CreateResponses ==
    { [code |-> HTTP_OK, id |-> "cid"],
      [code |-> HTTP_OK, id |-> ""],
      [code |-> HTTP_SERVER_ERROR, id |-> "cid"],
      [code |-> EXC, id |-> ""] }

\* Status poll: the status code and the "status" of the body.
PollResponses ==
    { [code |-> HTTP_OK, status |-> "IN_PROGRESS"],
      [code |-> HTTP_OK, status |-> "FINISHED"],
      [code |-> HTTP_OK, status |-> "ERROR"],
      [code |-> HTTP_SERVER_ERROR, status |-> "FINISHED"],
      [code |-> EXC, status |-> ""] }

\* Publish: the status code, whether the body parses as a JSON object whose
\* "error" is an object, and that object's error_subcode.
PublishResponses ==
    { [code |-> HTTP_OK, json |-> TRUE, subcode |-> NO_SUBCODE],
      [code |-> HTTP_BAD_REQUEST, json |-> TRUE, subcode |-> RETRYABLE_SUBCODE],
      [code |-> HTTP_BAD_REQUEST, json |-> TRUE, subcode |-> OTHER_SUBCODE],
      [code |-> HTTP_SERVER_ERROR, json |-> FALSE, subcode |-> RETRYABLE_SUBCODE],
      [code |-> EXC, json |-> FALSE, subcode |-> NO_SUBCODE] }

----------------------------------------------------------------------------
(* Decisions of post_to_threads on a response *)

\* A variant that does not check the creation id (lines 124-126 left out).
CreateOutcome_NoIdCheck(res) ==
    IF res.code = EXC THEN "raise"
    ELSE IF res.code # HTTP_OK THEN "fail_status"
    ELSE "ok"

\* Lines 119-126: what the media path does with the creation response.
CreateOutcome(res) ==
    IF res.code = EXC THEN "raise"
    ELSE IF res.code # HTTP_OK THEN "fail_status"
    ELSE IF res.id = "" THEN "fail_no_id"
    ELSE "ok"

\* Lines 179-185: what the text path does with the creation response.
TextOutcome(res) ==
    IF res.code = EXC THEN "raise"
    ELSE IF res.code = HTTP_OK THEN "ok"
    ELSE "fail"

\* A variant that reads the status without checking the status code.
PollOutcome_IgnoresStatusCode(res) ==
    IF res.code = EXC THEN "raise"
    ELSE IF res.status = "FINISHED" THEN "finished"
    ELSE IF res.status = "ERROR" THEN "error"
    ELSE "continue"

\* A variant that keeps polling after an ERROR status.
PollOutcome_ErrorContinues(res) ==
    IF res.code = EXC THEN "raise"
    ELSE IF res.code # HTTP_OK THEN "fail_status"
    ELSE IF res.status = "FINISHED" THEN "finished"
    ELSE "continue"

\* A variant that does not leave the loop on FINISHED.
PollOutcome_FinishedContinues(res) ==
    IF res.code = EXC THEN "raise"
    ELSE IF res.code # HTTP_OK THEN "fail_status"
    ELSE IF res.status = "ERROR" THEN "error"
    ELSE "continue"

\* Lines 130-141: what the polling loop does with one poll response.
PollOutcome(res) ==
    IF res.code = EXC THEN "raise"
    ELSE IF res.code # HTTP_OK THEN "fail_status"
    ELSE IF res.status = "FINISHED" THEN "finished"
    ELSE IF res.status = "ERROR" THEN "error"
    ELSE "continue"

\* A variant that retries on every error subcode.
IsRetryable_AnySubcode(res) ==
    res.json /\ res.subcode # NO_SUBCODE

\* A variant that never retries.
IsRetryable_Never(res) == FALSE

\* Lines 162-165: the failure response carries the retryable subcode.
IsRetryable(res) ==
    res.json /\ res.subcode = RETRYABLE_SUBCODE

\* Lines 156-173: what the publish loop does with one publish response.
PublishOutcome(res) ==
    IF res.code = EXC THEN "raise"
    ELSE IF res.code = HTTP_OK THEN "ok"
    ELSE IF IsRetryable(res) THEN "retry"
    ELSE "fail"

\* A variant that sets the media fields before testing the link.
BuildData_AlwaysMedia(link, file) ==
    IF link # "" THEN
        [keys |-> {"access_token", "text", "image_url", "media_type"},
         media_type |-> media_type_of(file)]
    ELSE [keys |-> {"access_token", "text", "image_url", "media_type"},
          media_type |-> "TEXT_POST"]

\* Lines 106-117, 178: the form data of the creation call.
BuildData(link, file) ==
    IF link # "" THEN
        IF media_type_of(file) = "VIDEO"
        THEN [keys |-> {"access_token", "text", "video_url", "media_type"},
              media_type |-> "VIDEO"]
        ELSE [keys |-> {"access_token", "text", "image_url", "media_type"},
              media_type |-> "IMAGE"]
    ELSE [keys |-> {"access_token", "text", "media_type"},
          media_type |-> "TEXT_POST"]

NoData == [keys |-> {}, media_type |-> ""]

\* Lines 149-152: the extra wait of the first account before publishing.
HasExtraWait(name) == name = "eclipsed.by.you"

ExtraWaitLog(name) == IF HasExtraWait(name) THEN <<"extra_wait">> ELSE << >>

ExtraWaitSleep(name) == IF HasExtraWait(name) THEN <<EXTRA_WAIT>> ELSE << >>

----------------------------------------------------------------------------
(* Control flow *)

account_name == IF acct \in DOMAIN ACCOUNTS THEN ACCOUNTS[acct] ELSE ""

\* Where an exception raised inside a workflow's try block goes: the
\* except clause (lines 209-210, 292-294), then the finally block.
WorkflowHandler == "finish"

\* Without the try/except of lines 267-273 the exception leaves the loop.
OrchestratorHandler_Uncaught == "aborted"

\* Where an exception of the orchestrator's authenticate-and-list goes: the
\* except clause of lines 271-273, after which the loop body continues.
OrchestratorHandler == "wf_auth"

\* What run_with_file / run return; run returns nothing.
NoRet == [success |-> FALSE, name |-> "unset"]

CrashRet == [success |-> FALSE, name |-> ""]

\* The except clause of a workflow: log the crash, return (False, None).
Crash ==
    /\ log_buffer' = Append(log_buffer, "crashed")
    /\ ret' = IF workflow = "run_with_file" THEN CrashRet ELSE ret
    /\ pc' = WorkflowHandler

\* A variant in which the delete is skipped after post_to_threads returned.
Return_SkipDelete(v, msgs) ==
    /\ success' = v
    /\ log_buffer' = log_buffer \o msgs
    /\ ret' = IF workflow = "run_with_file"
              THEN [success |-> (v = "True"), name |-> chosen_file.name]
              ELSE ret
    /\ pc' = "finish"

\* post_to_threads returns v (lines 122, 126, 133, 140, 159, 173, 176, 182,
\* 185); the workflow goes on to the delete of lines 203-204 / 286-287.
Return(v, msgs) ==
    /\ success' = v
    /\ log_buffer' = log_buffer \o msgs
    /\ ret' = ret
    /\ pc' = "delete"

Init ==
    /\ pc = "loop"
    /\ acct = 0
    /\ overall_summary = << >>
    /\ initial_count = 0
    /\ files = << >>
    /\ posted_file = NoFile
    /\ workflow = "none"
    /\ chosen_file = NoFile
    /\ temp_link = "unset"
    /\ data = NoData
    /\ creation_id = ""
    /\ success = "unset"
    /\ ret = NoRet
    /\ log_buffer = << >>
    /\ flushed = << >>
    /\ calls = << >>
    /\ creates = << >>
    /\ polls = << >>
    /\ pubs = << >>
    /\ sleeps = << >>
    /\ summary_sent = 0

\* Lines 264-265: the next account of the loop; a new uploader is built.
NextAccount ==
    /\ pc = "loop"
    /\ acct < Len(ACCOUNTS)
    /\ acct' = acct + 1
    /\ pc' = "o_auth"
    /\ initial_count' = 0
    /\ files' = << >>
    /\ posted_file' = NoFile
    /\ workflow' = "none"
    /\ chosen_file' = NoFile
    /\ temp_link' = "unset"
    /\ data' = NoData
    /\ creation_id' = ""
    /\ success' = "unset"
    /\ ret' = NoRet
    /\ log_buffer' = << >>
    /\ flushed' = << >>
    /\ calls' = << >>
    /\ creates' = << >>
    /\ polls' = << >>
    /\ pubs' = << >>
    /\ sleeps' = << >>
    /\ UNCHANGED <<overall_summary, summary_sent>>

\* Lines 271-276, 302, 192-194: the first authenticate-and-list failed; the
\* account counts as 'ERR', files is empty and uploader.run() is entered.
OrchestratorFailed ==
    /\ initial_count' = ERR
    /\ files' = << >>
    /\ posted_file' = NoFile
    /\ workflow' = "run"
    /\ chosen_file' = NoFile
    /\ log_buffer' = Append(log_buffer, "started")
    /\ pc' = OrchestratorHandler

\* Line 268: uploader.authenticate_dropbox() of the orchestrator.
OrchestratorAuth ==
    /\ pc = "o_auth"
    /\ \E ok \in BOOLEAN :
         IF ok
         THEN /\ pc' = "o_list"
              /\ UNCHANGED <<initial_count, files, posted_file, workflow,
                             chosen_file, log_buffer>>
         ELSE OrchestratorFailed
    /\ UNCHANGED <<acct, overall_summary, calls, temp_link, data, creation_id,
                   success, ret, flushed, creates, polls, pubs, sleeps,
                   summary_sent>>

\* Lines 269-281 and 301-302: list the folder, count the eligible files,
\* pick the file to post and enter run_with_file, or enter uploader.run().
OrchestratorList ==
    /\ pc = "o_list"
    /\ \/ OrchestratorFailed
       \/ \E listing \in Listings :
            LET fs == list_dropbox_files(listing) IN
            /\ files' = fs
            /\ initial_count' = Len(fs)
            /\ log_buffer' = Append(log_buffer, "started")
            /\ pc' = "wf_auth"
            /\ IF fs # << >>
               THEN \E f \in Range(fs) :
                      /\ posted_file' = f
                      /\ chosen_file' = f
                      /\ workflow' = "run_with_file"
               ELSE /\ posted_file' = NoFile
                    /\ chosen_file' = NoFile
                    /\ workflow' = "run"
    /\ UNCHANGED <<acct, overall_summary, calls, temp_link, data, creation_id,
                   success, ret, flushed, creates, polls, pubs, sleeps,
                   summary_sent>>

\* Lines 195 and 284: authenticate_dropbox() inside the workflow.
WorkflowAuth ==
    /\ pc = "wf_auth"
    /\ calls' = Append(calls, "auth")
    /\ \E ok \in BOOLEAN :
         IF ok
         THEN /\ pc' = IF workflow = "run_with_file" THEN "p_link" ELSE "r_list"
              /\ UNCHANGED <<log_buffer, ret>>
         ELSE Crash
    /\ UNCHANGED <<acct, overall_summary, initial_count, files, posted_file,
                   workflow, chosen_file, temp_link, data, creation_id,
                   success, flushed, creates, polls, pubs, sleeps,
                   summary_sent>>

\* Lines 196-201: run() lists the folder again and picks a file itself.
RunList ==
    /\ pc = "r_list"
    /\ calls' = Append(calls, "list")
    /\ \/ Crash /\ UNCHANGED chosen_file
       \/ \E listing \in Listings :
            LET fs == list_dropbox_files(listing) IN
            IF fs = << >>
            THEN /\ log_buffer' = Append(log_buffer, "no_files")
                 /\ pc' = "finish"
                 /\ UNCHANGED <<chosen_file, ret>>
            ELSE \E f \in Range(fs) :
                   /\ chosen_file' = f
                   /\ pc' = "p_link"
                   /\ UNCHANGED <<log_buffer, ret>>
    /\ UNCHANGED <<acct, overall_summary, initial_count, files, posted_file,
                   workflow, temp_link, data, creation_id, success, flushed,
                   creates, polls, pubs, sleeps, summary_sent>>

\* The temporary links files_get_temporary_link may produce ("" for none).
TempLinks == {"https://dl/link", ""}

\* Line 100: the temporary link of the chosen file.
GetTemporaryLink ==
    /\ pc = "p_link"
    /\ calls' = Append(calls, "link")
    /\ \/ Crash /\ UNCHANGED temp_link
       \/ \E link \in TempLinks :
            /\ temp_link' = link
            /\ pc' = "p_list"
            /\ UNCHANGED <<log_buffer, ret>>
    /\ UNCHANGED <<acct, overall_summary, initial_count, files, posted_file,
                   workflow, chosen_file, data, creation_id, success, flushed,
                   creates, polls, pubs, sleeps, summary_sent>>

\* Lines 101-117 and 178: count the remaining files, announce the upload and
\* build the form data of the creation call.
CountRemaining ==
    /\ pc = "p_list"
    /\ calls' = Append(calls, "list")
    /\ \/ Crash /\ UNCHANGED data
       \/ \E listing \in Listings :
            /\ log_buffer' = Append(log_buffer, "uploading")
            /\ data' = BuildData(temp_link, chosen_file)
            /\ pc' = "p_create"
            /\ UNCHANGED ret
    /\ UNCHANGED <<acct, overall_summary, initial_count, files, posted_file,
                   workflow, chosen_file, temp_link, creation_id, success,
                   flushed, creates, polls, pubs, sleeps, summary_sent>>

\* Lines 119-126 (media container) and 179-185 (text post): the creation
\* call and what follows from its response.
Create ==
    /\ pc = "p_create"
    /\ calls' = Append(calls, "create")
    /\ \E res \in CreateResponses :
         /\ creates' = Append(creates, res)
         /\ IF temp_link # ""
            THEN LET o == CreateOutcome(res) IN
                 CASE o = "raise" ->
                        Crash /\ UNCHANGED <<success, creation_id>>
                   [] o = "fail_status" ->
                        Return("False", <<"create_failed">>)
                        /\ UNCHANGED creation_id
                   [] o = "fail_no_id" ->
                        Return("False", <<"no_creation_id">>)
                        /\ UNCHANGED creation_id
                   [] OTHER ->
                        /\ creation_id' = res.id
                        /\ pc' = "p_poll"
                        /\ UNCHANGED <<success, log_buffer, ret>>
            ELSE LET o == TextOutcome(res) IN
                 CASE o = "raise" ->
                        Crash /\ UNCHANGED <<success, creation_id>>
                   [] o = "ok" ->
                        Return("True", <<"posted">>) /\ UNCHANGED creation_id
                   [] OTHER ->
                        Return("False", <<"post_failed">>)
                        /\ UNCHANGED creation_id
    /\ UNCHANGED <<acct, overall_summary, initial_count, files, posted_file,
                   workflow, chosen_file, temp_link, data, flushed, polls,
                   pubs, sleeps, summary_sent>>

\* A variant that gives up when the polling budget is used up.
Poll_FailOnExhaustion ==
    /\ pc = "p_poll"
    /\ Len(polls) < max_retries
    /\ calls' = Append(calls, "poll")
    /\ \E res \in PollResponses :
         /\ polls' = Append(polls, res)
         /\ LET o == PollOutcome(res) IN
            CASE o = "raise" ->
                   Crash /\ UNCHANGED <<success, sleeps>>
              [] o = "fail_status" ->
                   Return("False", <<"poll_failed">>) /\ UNCHANGED sleeps
              [] o = "error" ->
                   Return("False", <<"transcode_failed">>) /\ UNCHANGED sleeps
              [] o = "finished" ->
                   /\ sleeps' = sleeps \o <<SETTLE_DELAY>>
                                  \o ExtraWaitSleep(account_name)
                   /\ log_buffer' = log_buffer \o ExtraWaitLog(account_name)
                   /\ pc' = "p_publish"
                   /\ UNCHANGED <<success, ret>>
              [] OTHER ->
                   IF Len(polls) + 1 < max_retries
                   THEN /\ sleeps' = Append(sleeps, POLL_DELAY)
                        /\ pc' = "p_poll"
                        /\ UNCHANGED <<success, log_buffer, ret>>
                   ELSE /\ sleeps' = Append(sleeps, POLL_DELAY)
                        /\ Return("False", <<"poll_timeout">>)
    /\ UNCHANGED <<acct, overall_summary, initial_count, files, posted_file,
                   workflow, chosen_file, temp_link, data, creation_id,
                   flushed, creates, pubs, summary_sent>>

\* Lines 129-152: one iteration of the polling loop; when the loop ends
\* (break, or range(max_retries) exhausted) the publish step is prepared.
Poll ==
    /\ pc = "p_poll"
    /\ Len(polls) < max_retries
    /\ calls' = Append(calls, "poll")
    /\ \E res \in PollResponses :
         /\ polls' = Append(polls, res)
         /\ LET o == PollOutcome(res) IN
            CASE o = "raise" ->
                   Crash /\ UNCHANGED <<success, sleeps>>
              [] o = "fail_status" ->
                   Return("False", <<"poll_failed">>) /\ UNCHANGED sleeps
              [] o = "error" ->
                   Return("False", <<"transcode_failed">>) /\ UNCHANGED sleeps
              [] o = "finished" ->
                   /\ sleeps' = sleeps \o <<SETTLE_DELAY>>
                                  \o ExtraWaitSleep(account_name)
                   /\ log_buffer' = log_buffer \o ExtraWaitLog(account_name)
                   /\ pc' = "p_publish"
                   /\ UNCHANGED <<success, ret>>
              [] OTHER ->
                   IF Len(polls) + 1 < max_retries
                   THEN /\ sleeps' = Append(sleeps, POLL_DELAY)
                        /\ pc' = "p_poll"
                        /\ UNCHANGED <<success, log_buffer, ret>>
                   ELSE /\ sleeps' = sleeps \o <<POLL_DELAY>>
                                       \o ExtraWaitSleep(account_name)
                        /\ log_buffer' =
                               log_buffer \o ExtraWaitLog(account_name)
                        /\ pc' = "p_publish"
                        /\ UNCHANGED <<success, ret>>
    /\ UNCHANGED <<acct, overall_summary, initial_count, files, posted_file,
                   workflow, chosen_file, temp_link, data, creation_id,
                   flushed, creates, pubs, summary_sent>>

\* Lines 155-176: one attempt of the publish loop.
Publish ==
    /\ pc = "p_publish"
    /\ Len(pubs) < publish_attempts
    /\ calls' = Append(calls, "publish")
    /\ \E res \in PublishResponses :
         /\ pubs' = Append(pubs, res)
         /\ LET o == PublishOutcome(res) IN
            CASE o = "raise" ->
                   Crash /\ UNCHANGED <<success, sleeps>>
              [] o = "ok" ->
                   Return("True", <<"posted">>) /\ UNCHANGED sleeps
              [] o = "retry" ->
                   /\ sleeps' = Append(sleeps, RETRY_DELAY)
                   /\ IF Len(pubs) + 1 < publish_attempts
                      THEN /\ log_buffer' = Append(log_buffer, "retrying")
                           /\ pc' = "p_publish"
                           /\ UNCHANGED <<success, ret>>
                      ELSE Return("False",
                                  <<"retrying", "publish_failed_after_retries">>)
              [] OTHER ->
                   Return("False", <<"publish_failed">>) /\ UNCHANGED sleeps
    /\ UNCHANGED <<acct, overall_summary, initial_count, files, posted_file,
                   workflow, chosen_file, temp_link, data, creation_id,
                   flushed, creates, polls, summary_sent>>

\* A variant without the inner try/except of lines 286-290: a raising delete
\* reaches the except clause of the workflow.
Delete_Escalates ==
    /\ pc = "delete"
    /\ calls' = Append(calls, "delete")
    /\ \E ok \in BOOLEAN :
         IF ok
         THEN /\ log_buffer' = Append(log_buffer, "deleted")
              /\ ret' = IF workflow = "run_with_file"
                        THEN [success |-> (success = "True"),
                              name |-> chosen_file.name]
                        ELSE ret
              /\ pc' = "finish"
         ELSE Crash
    /\ UNCHANGED <<acct, overall_summary, initial_count, files, posted_file,
                   workflow, chosen_file, temp_link, data, creation_id,
                   success, flushed, creates, polls, pubs, sleeps,
                   summary_sent>>

\* Lines 203-207 and 286-291: delete the file after the attempt, whatever
\* post_to_threads returned; a failing delete is only logged.
Delete ==
    /\ pc = "delete"
    /\ calls' = Append(calls, "delete")
    /\ \E ok \in BOOLEAN :
         log_buffer' = Append(log_buffer,
                              IF ok THEN "deleted" ELSE "delete_failed")
    /\ ret' = IF workflow = "run_with_file"
              THEN [success |-> (success = "True"), name |-> chosen_file.name]
              ELSE ret
    /\ pc' = "finish"
    /\ UNCHANGED <<acct, overall_summary, initial_count, files, posted_file,
                   workflow, chosen_file, temp_link, data, creation_id,
                   success, flushed, creates, polls, pubs, sleeps,
                   summary_sent>>

\* Lines 300, 303: post_success and posted_file_name of the orchestrator.
post_success == IF workflow = "run_with_file" THEN ret.success ELSE FALSE

posted_file_name == IF workflow = "run_with_file" THEN ret.name ELSE ""

\* A variant whose "posted" line leaves out the file name.
SummaryLine_DropsFile(name, count, file_name, ok) ==
    IF count = ERR
    THEN [account |-> name, kind |-> "error", count |-> ERR,
          file |-> "", status |-> ""]
    ELSE IF file_name # ""
    THEN [account |-> name, kind |-> "posted", count |-> count,
          file |-> "",
          status |-> IF ok THEN "Success" ELSE "Failed"]
    ELSE [account |-> name, kind |-> "none", count |-> count,
          file |-> "", status |-> ""]

\* A variant that reports every posted file as a success.
SummaryLine_AlwaysSuccess(name, count, file_name, ok) ==
    IF count = ERR
    THEN [account |-> name, kind |-> "error", count |-> ERR,
          file |-> "", status |-> ""]
    ELSE IF file_name # ""
    THEN [account |-> name, kind |-> "posted", count |-> count,
          file |-> file_name, status |-> "Success"]
    ELSE [account |-> name, kind |-> "none", count |-> count,
          file |-> "", status |-> ""]

\* Lines 305-311: the summary line of the account.
SummaryLine(name, count, file_name, ok) ==
    IF count = ERR
    THEN [account |-> name, kind |-> "error", count |-> ERR,
          file |-> "", status |-> ""]
    ELSE IF file_name # ""
    THEN [account |-> name, kind |-> "posted", count |-> count,
          file |-> file_name,
          status |-> IF ok THEN "Success" ELSE "Failed"]
    ELSE [account |-> name, kind |-> "none", count |-> count,
          file |-> "", status |-> ""]

\* Lines 211-214 / 295-298 and 300-312: the finally block of the workflow
\* (final message, send_log_summary), then the account's summary line.
Finish ==
    /\ pc = "finish"
    /\ flushed' = Append(flushed, Append(log_buffer, "complete"))
    /\ log_buffer' = << >>
    /\ overall_summary' =
           Append(overall_summary,
                  SummaryLine(account_name, initial_count,
                              posted_file_name, post_success))
    /\ pc' = "loop"
    /\ UNCHANGED <<acct, initial_count, files, posted_file, workflow,
                   chosen_file, temp_link, data, creation_id, success, ret,
                   calls, creates, polls, pubs, sleeps, summary_sent>>

\* A variant in which the summary is sent from inside the loop.
LoopExit_Early ==
    /\ pc = "loop"
    /\ acct >= 1
    /\ pc' = "send"
    /\ initial_count' = 0
    /\ files' = << >>
    /\ posted_file' = NoFile
    /\ workflow' = "none"
    /\ chosen_file' = NoFile
    /\ temp_link' = "unset"
    /\ data' = NoData
    /\ creation_id' = ""
    /\ success' = "unset"
    /\ ret' = NoRet
    /\ log_buffer' = << >>
    /\ flushed' = << >>
    /\ calls' = << >>
    /\ creates' = << >>
    /\ polls' = << >>
    /\ pubs' = << >>
    /\ sleeps' = << >>
    /\ UNCHANGED <<acct, overall_summary, summary_sent>>

\* Line 264: the loop over ACCOUNTS is exhausted.  The variables of the last
\* iteration and the records of its calls are not read again and are cleared.
LoopExit ==
    /\ pc = "loop"
    /\ acct = Len(ACCOUNTS)
    /\ pc' = "send"
    /\ initial_count' = 0
    /\ files' = << >>
    /\ posted_file' = NoFile
    /\ workflow' = "none"
    /\ chosen_file' = NoFile
    /\ temp_link' = "unset"
    /\ data' = NoData
    /\ creation_id' = ""
    /\ success' = "unset"
    /\ ret' = NoRet
    /\ log_buffer' = << >>
    /\ flushed' = << >>
    /\ calls' = << >>
    /\ creates' = << >>
    /\ polls' = << >>
    /\ pubs' = << >>
    /\ sleeps' = << >>
    /\ UNCHANGED <<acct, overall_summary, summary_sent>>

\* Lines 248-258, 314: send_overall_summary; a Telegram error is only logged.
SendOverallSummary ==
    /\ pc = "send"
    /\ summary_sent' = summary_sent + 1
    /\ pc' = "done"
    /\ UNCHANGED <<acct, overall_summary, initial_count, files, posted_file,
                   workflow, chosen_file, temp_link, data, creation_id,
                   success, ret, log_buffer, flushed, calls, creates, polls,
                   pubs, sleeps>>

Next ==
    \/ NextAccount
    \/ OrchestratorAuth
    \/ OrchestratorList
    \/ WorkflowAuth
    \/ RunList
    \/ GetTemporaryLink
    \/ CountRemaining
    \/ Create
    \/ Poll
    \/ Publish
    \/ Delete
    \/ Finish
    \/ LoopExit
    \/ SendOverallSummary

Spec == Init /\ [][Next]_vars

\* The script is sequential and every external call returns or raises, so a
\* step that can be taken is taken.
FairSpec == Spec /\ WF_vars(Next)

----------------------------------------------------------------------------
(* Properties *)

\* The account's processing is past post_to_threads (it returned or raised),
\* or never entered it.
WorkflowOver == pc \in {"delete", "finish", "loop", "send", "done"}

\* post_to_threads has returned a value.
Returned == success # "unset"

\* The media path was taken: a temporary link was obtained.
MediaPath == temp_link \notin {"unset", ""}

\* A publish response that is a failure carrying the retryable subcode.
RetryableFailure(r) ==
    /\ r.code \notin {200, EXC}
    /\ r.json
    /\ r.subcode = 2207032

\* C1: a second or third publish call is made only if the publish response
\* right before it was a non-200 carrying error_subcode 2207032, and no more
\* than 3 publish calls are made for one file.
C1_PublishRetryOnlyOnRetryable ==
    /\ Len(pubs) <= 3
    /\ \A i \in 2..Len(pubs) : RetryableFailure(pubs[i - 1])

\* A third publish call was made.
C1_Witness == Len(pubs) = 3 /\ pubs[3].code = 200

\* C5: no poll call is made after a poll response with status FINISHED or
\* ERROR, and no more than 20 poll calls are made for one creation id.
C5_PollingTerminates ==
    /\ Len(polls) <= 20
    /\ \A i \in 1..(Len(polls) - 1) :
         polls[i].status \notin {"FINISHED", "ERROR"}
    /\ pc = "p_poll" =>
         /\ Len(polls) < 20
         /\ polls # << >> =>
              polls[Len(polls)].status \notin {"FINISHED", "ERROR"}

\* The polling budget was used up: FINISHED came with the 20th poll.
C5_Witness ==
    /\ Len(polls) = 20
    /\ polls[20] = [code |-> 200, status |-> "FINISHED"]
    /\ pc = "p_publish"

\* C6: on the media path, a creation response that is non-200, or 200
\* without a creation id, makes post_to_threads return failure with no poll
\* call and no publish call.
C6_CreationFailureIsTerminal ==
    (/\ MediaPath
     /\ creates # << >>
     /\ creates[1].code # EXC
     /\ creates[1].code # 200 \/ creates[1].id = "")
    => /\ success = "False"
       /\ polls = << >>
       /\ pubs = << >>
       /\ Len(creates) = 1

\* A 200 creation response without an id ended the attempt.
C6_Witness ==
    /\ MediaPath
    /\ creates = <<[code |-> 200, id |-> ""]>>
    /\ success = "False"
    /\ pc = "loop"

\* C8: k retryable failures (0 <= k <= 2) followed by a 200 give success
\* after exactly k+1 publish calls; 3 retryable failures give failure after
\* exactly 3 publish calls; after fewer than 3 retryable failures the next
\* attempt is still to come.
C8_PublishRetryResult ==
    /\ \A k \in 0..2 :
         (/\ Len(pubs) >= k + 1
          /\ \A i \in 1..k : RetryableFailure(pubs[i])
          /\ pubs[k + 1].code = 200)
         => Len(pubs) = k + 1 /\ success = "True"
    /\ (Len(pubs) >= 3 /\ \A i \in 1..3 : RetryableFailure(pubs[i]))
         => Len(pubs) = 3 /\ success = "False"
    /\ (/\ pubs # << >>
        /\ Len(pubs) < 3
        /\ \A i \in 1..Len(pubs) : RetryableFailure(pubs[i]))
         => pc = "p_publish" /\ success = "unset"

\* Two retryable failures, then the third attempt succeeded.
C8_Witness ==
    /\ Len(pubs) = 3
    /\ RetryableFailure(pubs[1])
    /\ RetryableFailure(pubs[2])
    /\ pubs[3].code = 200
    /\ success = "True"

\* C10: without a temporary link there is at most one creation call, of type
\* TEXT_POST and without video_url / image_url, no poll and no publish call;
\* the response of that call is final, and the result is success iff it is
\* HTTP 200.
C10_TextPostPath ==
    temp_link = "" =>
      /\ polls = << >>
      /\ pubs = << >>
      /\ Len(creates) <= 1
      /\ creates # << >> =>
           /\ data.media_type = "TEXT_POST"
           /\ data.keys \cap {"video_url", "image_url"} = {}
           /\ creates[1].code # EXC => Returned
      /\ Returned =>
           /\ Len(creates) = 1
           /\ success = "True" <=> creates[1].code = 200

\* The text post was created with a 200 response.
C10_Witness ==
    /\ temp_link = ""
    /\ Len(creates) = 1
    /\ creates[1].code = 200
    /\ success = "True"

\* A file was selected for the account (by the orchestrator or by run()).
FileSelected == chosen_file # NoFile

\* The account's workflow has ended (its finally block is reached or done).
AccountEnded == acct >= 1 /\ pc \in {"finish", "loop", "send", "done"}

\* C2, as claimed: exactly one delete call is made for the selected file
\* whatever the outcome of the workflow, exceptions included.
C2_DeleteExactlyOnceAlways ==
    (AccountEnded /\ posted_file # NoFile) => Count(calls, "delete") = 1

\* C2, amended: the delete is attempted exactly once when post_to_threads
\* returned (success or failure) and not at all when the workflow raised
\* before; it is never attempted twice, nor without a selected file.
C2_DeleteOnceAfterReturn ==
    LET deletes == Count(calls, "delete") IN
    /\ deletes <= 1
    /\ deletes = 1 => FileSelected /\ Returned
    /\ (AccountEnded /\ FileSelected) => (deletes = 1 <=> Returned)

\* The publish workflow returned failure and the file was still deleted.
C2_Witness ==
    /\ pc = "loop"
    /\ FileSelected
    /\ success = "False"
    /\ pubs # << >>
    /\ Count(calls, "delete") = 1

\* C3: an account whose first listing is empty sees no delete call and no
\* creation or publish call, and its summary line is "0 files, no file
\* posted.".
C3_EmptyFolderNoCalls ==
    (acct >= 1 /\ workflow = "run" /\ initial_count = 0) =>
      /\ Count(calls, "delete") = 0
      /\ creates = << >>
      /\ pubs = << >>
      /\ pc = "loop" =>
           overall_summary[acct] =
             [account |-> ACCOUNTS[acct], kind |-> "none", count |-> 0,
              file |-> "", status |-> ""]

\* C4: an account whose first authenticate-and-list failed is summarised as
\* the Dropbox error, selects no file and makes no creation, poll, publish
\* or delete call.
C4_ListingErrorStops ==
    (acct >= 1 /\ initial_count = ERR) =>
      /\ ~FileSelected
      /\ creates = << >>
      /\ polls = << >>
      /\ pubs = << >>
      /\ Count(calls, "delete") = 0
      /\ pc = "loop" => overall_summary[acct].kind = "error"

\* C7: whatever fails in an account, the driver goes on: every state short
\* of the end has a next step, each processed account has exactly one
\* summary line, in the order of ACCOUNTS, and all 3 have one at the end.
C7_AccountsIndependent ==
    /\ pc # "done" => ENABLED Next
    /\ Len(overall_summary) =
         IF pc \in {"loop", "send", "done"} THEN acct ELSE acct - 1
    /\ \A i \in DOMAIN overall_summary :
         overall_summary[i].account = ACCOUNTS[i]
    /\ pc \in {"send", "done"} => Len(overall_summary) = 3

\* The first account failed to list, the second crashed in its workflow
\* after a file was selected, and the third still posted.
C7_Witness ==
    /\ pc = "done"
    /\ overall_summary[1].kind = "error"
    /\ overall_summary[2].kind = "none" /\ overall_summary[2].count = 1
    /\ overall_summary[3].status = "Success"

FirstPollFinished ==
    polls # << >> /\ polls[1] = [code |-> 200, status |-> "FINISHED"]

\* C9, as claimed: after a first poll with status FINISHED there is exactly
\* one poll call, one settle delay and exactly one publish call.
C9_ExactlyOnePublish ==
    (FirstPollFinished /\ Returned) =>
      /\ Len(polls) = 1
      /\ Count(sleeps, 3) = 1
      /\ Len(pubs) = 1

\* C9, amended: after a first poll with status FINISHED there is exactly one
\* poll call and one settle delay, which precedes every publish call; then
\* at least one and at most 3 publish calls are made, one more after each
\* retryable failure and none after any other response.
C9_OnePollOneSettleThenPublish ==
    FirstPollFinished =>
      /\ Len(polls) = 1
      /\ Count(sleeps, 3) = 1
      /\ sleeps[1] = 3
      /\ Len(pubs) <= 3
      /\ \A i \in 1..(Len(pubs) - 1) : RetryableFailure(pubs[i])
      /\ WorkflowOver =>
           /\ Len(pubs) >= 1
           /\ Len(pubs) < 3 => ~RetryableFailure(pubs[Len(pubs)])

\* FINISHED on the first poll, a retryable failure, then a second publish.
C9_Witness ==
    /\ FirstPollFinished
    /\ Len(pubs) = 2
    /\ success = "True"

\* The messages the account's uploader has logged so far.
AccountLog == IF flushed # << >> THEN flushed[1] ELSE log_buffer

\* C11: a raising delete leaves the workflow's result as post_to_threads
\* returned it: the success flag and the file name returned, and the status
\* of the summary line, are those of a run whose delete succeeded, and the
\* failure is logged as a warning with no crash message.
C11_DeleteFailureKeepsOutcome ==
    (AccountEnded /\ workflow = "run_with_file"
                  /\ Count(calls, "delete") = 1) =>
      /\ ret = [success |-> (success = "True"), name |-> chosen_file.name]
      /\ Count(AccountLog, "deleted") + Count(AccountLog, "delete_failed") = 1
      /\ Count(AccountLog, "crashed") = 0
      /\ pc = "loop" =>
           overall_summary[acct] =
             [account |-> ACCOUNTS[acct], kind |-> "posted",
              count |-> initial_count, file |-> chosen_file.name,
              status |-> IF success = "True" THEN "Success" ELSE "Failed"]

\* The post succeeded, the delete raised, and the summary says success.
C11_Witness ==
    /\ pc = "loop"
    /\ workflow = "run_with_file"
    /\ success = "True"
    /\ Count(AccountLog, "delete_failed") = 1
    /\ overall_summary[acct].status = "Success"

\* The orchestrator selected a file and the account's line is written.
SelectedAndSummarised == pc = "loop" /\ acct >= 1 /\ posted_file # NoFile

\* C12, as claimed: every run in which a file was selected, a crashed one
\* included, yields a summary line naming the account, the initial count,
\* the selected file and a success / failure status.
C12_SummaryNamesSelectedFile ==
    SelectedAndSummarised =>
      /\ overall_summary[acct].account = ACCOUNTS[acct]
      /\ overall_summary[acct].count = initial_count
      /\ overall_summary[acct].file = posted_file.name
      /\ overall_summary[acct].status \in {"Success", "Failed"}

\* C12, amended: the line names the account and the initial count; it names
\* the selected file and a success / failure status when post_to_threads
\* returned, and is the "no file posted." line, without file and status,
\* when the run ended in a caught exception.
C12_SummaryOfSelectedFile ==
    SelectedAndSummarised =>
      /\ overall_summary[acct].account = ACCOUNTS[acct]
      /\ overall_summary[acct].count = initial_count
      /\ initial_count >= 1
      /\ Returned =>
           /\ overall_summary[acct].kind = "posted"
           /\ overall_summary[acct].file = posted_file.name
           /\ overall_summary[acct].status =
                IF success = "True" THEN "Success" ELSE "Failed"
      /\ ~Returned =>
           /\ Count(AccountLog, "crashed") = 1
           /\ overall_summary[acct].kind = "none"
           /\ overall_summary[acct].file = ""
           /\ overall_summary[acct].status = ""

\* A run crashed on a raising publish call after the file was selected.
C12_Witness ==
    /\ SelectedAndSummarised
    /\ ~Returned
    /\ pubs # << >>
    /\ overall_summary[acct].kind = "none"

\* The workflow's authenticate_dropbox() raised: it is the only call the
\* workflow made, and the workflow crashed.
WorkflowAuthFailed ==
    calls = <<"auth">> /\ Count(AccountLog, "crashed") = 1

\* C13: a storage authentication error during an account's processing ends
\* the account and is recorded as the 'ERR' entry of its summary line, also
\* when it is the workflow's authentication that fails after the
\* orchestrator's succeeded.
C13_AuthErrorRecordedAsErr ==
    (acct >= 1 /\ WorkflowAuthFailed) =>
      /\ pc \in {"finish", "loop", "send", "done"}
      /\ pc = "loop" =>
           /\ overall_summary[acct].kind = "error"
           /\ overall_summary[acct].count = ERR

\* C14: the accounts are processed one after another in the order of
\* ACCOUNTS (while an account runs, exactly the earlier ones have their
\* line), and the summary is sent once, after all 3 accounts, with the lines
\* in the order of the accounts.
C14_SequentialThenOneSummary ==
    /\ summary_sent = IF pc = "done" THEN 1 ELSE 0
    /\ pc \in {"send", "done"} =>
         /\ acct = 3
         /\ [i \in 1..3 |-> overall_summary[i].account] = ACCOUNTS
    /\ pc \notin {"loop", "send", "done"} =>
         /\ acct \in 1..3
         /\ Len(overall_summary) = acct - 1
         /\ \A i \in 1..(acct - 1) :
              overall_summary[i].account = ACCOUNTS[i]

\* The summary of three processed accounts was sent.
C14_Witness ==
    /\ pc = "done"
    /\ summary_sent = 1
    /\ Len(overall_summary) = 3
    /\ overall_summary[1].kind = "posted"
    /\ overall_summary[2].kind = "none"
    /\ overall_summary[3].kind = "error"

\* A poll response that is an ERROR status or a non-200 status code.
TerminalPoll(r) ==
    \/ r.code \notin {200, EXC}
    \/ r.code = 200 /\ r.status = "ERROR"

\* C15: a poll response with status ERROR or a non-200 code is the last
\* poll: post_to_threads returns failure on it and makes no publish call.
C15_PollFailureIsTerminal ==
    \A i \in DOMAIN polls :
      TerminalPoll(polls[i]) =>
        /\ i = Len(polls)
        /\ success = "False"
        /\ pubs = << >>
        /\ pc \in {"delete", "finish", "loop", "send", "done"}

\* The second poll came back non-200 and ended the attempt.
C15_Witness ==
    /\ Len(polls) = 2
    /\ polls[2] = [code |-> 500, status |-> "FINISHED"]
    /\ success = "False"
    /\ pc = "loop"

\* All 20 polls were answered 200 with a status other than FINISHED / ERROR.
PollsExhausted ==
    /\ Len(polls) = 20
    /\ \A i \in 1..20 :
         polls[i].code = 200 /\ polls[i].status \notin {"FINISHED", "ERROR"}

LastPub == pubs[Len(pubs)]

\* C16: after 20 polls without FINISHED or ERROR post_to_threads does not
\* fail but goes on to publish with the creation id, without the settle
\* delay: at least one publish call is made, and the result is success iff
\* the last publish response is HTTP 200.
C16_PollExhaustionFallsThrough ==
    PollsExhausted =>
      /\ Count(sleeps, 3) = 0
      /\ creation_id # ""
      /\ pubs = << >> => pc = "p_publish" /\ success = "unset"
      /\ WorkflowOver => pubs # << >>
      /\ Returned => (success = "True" <=> LastPub.code = 200)

\* The polling budget ran out and the publish still succeeded.
C16_Witness ==
    /\ PollsExhausted
    /\ Len(pubs) = 1
    /\ success = "True"
    /\ pc = "loop"

\* The place of a call in the protocol: storage calls of the preparation,
\* creation, polling, publishing, and the delete at the end.
CallRank(c) ==
    CASE c = "create" -> 1
      [] c = "poll" -> 2
      [] c = "publish" -> 3
      [] c = "delete" -> 4
      [] OTHER -> 0

\* C17: a poll call occurs only after a creation response that was HTTP 200
\* with a creation id; a publish call occurs only after the polling ended by
\* FINISHED or by using up its 20 polls; the delete call occurs only after
\* post_to_threads returned, after every platform call.  The record of calls
\* grows only at its end, so the newest call following its predecessor in every
\* state is every call following its predecessor.
C17_ProtocolOrder ==
    /\ polls # << >> =>
         /\ MediaPath
         /\ creates = <<[code |-> 200, id |-> creation_id]>>
         /\ creation_id # ""
    /\ pubs # << >> =>
         /\ polls # << >>
         /\ \/ polls[Len(polls)] = [code |-> 200, status |-> "FINISHED"]
            \/ PollsExhausted
    /\ calls # << >> =>
         LET n == Len(calls) IN
         /\ calls[n] = "delete" => Returned
         /\ n > 1 =>
              /\ calls[n - 1] # "delete"
              /\ CallRank(calls[n - 1]) <= CallRank(calls[n])
    /\ creates # << >> => calls # << >> /\ CallRank(calls[Len(calls)]) >= 1

\* The whole protocol ran: creation, three polls, two publish calls, delete.
C17_Witness ==
    /\ Len(polls) = 3
    /\ Len(pubs) = 2
    /\ Count(calls, "delete") = 1
    /\ success = "True"

\* C18: an account is summarised as a success only if the last platform
\* call of its run returned HTTP 200 - the last publish call on the media
\* path, the one text-post creation call without a link - and the run had
\* no poll failure and no exception.
C18_SuccessOnlyAfter200 ==
    (pc = "loop" /\ acct >= 1 /\ overall_summary[acct].status = "Success") =>
      /\ success = "True"
      /\ Count(AccountLog, "crashed") = 0
      /\ \A i \in DOMAIN polls : ~TerminalPoll(polls[i]) /\ polls[i].code # EXC
      /\ calls[Len(calls)] = "delete"
      /\ \/ /\ MediaPath
            /\ pubs # << >>
            /\ LastPub.code = 200
            /\ calls[Len(calls) - 1] = "publish"
         \/ /\ temp_link = ""
            /\ pubs = << >>
            /\ Len(creates) = 1
            /\ creates[1].code = 200
            /\ calls[Len(calls) - 1] = "create"

\* A text post answered 200 is summarised as a success.
C18_Witness ==
    /\ pc = "loop"
    /\ acct >= 1
    /\ overall_summary[acct].status = "Success"
    /\ temp_link = ""
    /\ creates = <<[code |-> 200, id |-> ""]>>

\* The bounds on the platform calls of one account, and the flush of the
\* uploader's log buffer once its run has ended.
BoundedAndFlushed ==
    /\ Len(creates) <= 1
    /\ Len(polls) <= 20
    /\ Len(pubs) <= 3
    /\ (acct >= 1 /\ pc = "loop") =>
         /\ log_buffer = << >>
         /\ Len(flushed) = 1
         /\ flushed[1][Len(flushed[1])] = "complete"

\* C19: every account's workflow runs to completion: post_to_threads makes
\* at most 1 creation call, 20 poll calls and 3 publish calls, the log buffer
\* is flushed at the end of each run, and the driver eventually sends the
\* final summary.
C19_RunsToCompletion ==
    /\ []BoundedAndFlushed
    /\ <>(pc = "done" /\ summary_sent = 1)

\* The driver sent the summary after a last account that ran its whole
\* workflow and failed to publish.
C19_Witness ==
    /\ pc = "done"
    /\ summary_sent = 1
    /\ Len(overall_summary) = 3
    /\ overall_summary[3].status = "Failed"
    /\ log_buffer = << >>

====
